---- MODULE Spec2Model ----
(***************************************************************************)
(* Model of examples/python/example_frontend/visualization/drawing.py:     *)
(* the CV2Drawing overlay methods (text, box_and_text, quadric, bounds_3D) *)
(* and generate_uv_spherical.                                              *)
(*                                                                         *)
(* The image buffer is modelled by the sequence of cv2 primitives issued   *)
(* on it.  Coordinates are exact rationals n/d with integer n, d; a float  *)
(* division by zero yields the values inf / nan as numpy produces them.    *)
(* The float64 values of generate_uv_spherical that are no small rationals *)
(* (np.cos and np.sin between the end points of np.linspace and what is    *)
(* computed from them) are held by name or by sign, not digit by digit.    *)
(* Sequences are 1-based here and 0-based in the source: an index k of the *)
(* source is element k+1 of the model's sequence.                          *)
(*                                                                         *)
(* The methods keep no state but the buffer, so a behaviour is: wrap an    *)
(* image (blank or already drawn on), then make one method call on it.     *)
(***************************************************************************)
EXTENDS Integers, Sequences, FiniteSets, TLC

VARIABLES
    image,   \* self._image: the primitives drawn on the buffer, in order
    shape,   \* self._image.shape: <<height, width>> of the buffer
    call     \* the last method call: its name, arguments and local values

vars == <<image, shape, call>>

----------------------------------------------------------------------------
(* Numbers *)

Abs(n) == IF n < 0 THEN -n ELSE n

Sgn(n) == IF n < 0 THEN -1 ELSE IF n > 0 THEN 1 ELSE 0

\* A float value: a rational n/d (d > 0), or inf (n = +-1, d = 0), or nan.
Num(n, d) == [k |-> "num", n |-> n, d |-> d]

\* numpy float division a / b of two exact integers
FDiv(a, b) ==
    IF b = 0
    THEN IF a = 0 THEN [k |-> "nan", n |-> 0, d |-> 0]
                  ELSE [k |-> "inf", n |-> Sgn(a), d |-> 0]
    ELSE Num(a * Sgn(b), Abs(b))

isinf(v) == v.k = "inf"

isnan(v) == v.k = "nan"

\* What a cast of inf or nan to an integer yields where the result does not
\* fit a C int (INT64_MIN or INT64_MAX); held as a number far outside every
\* pixel coordinate of the model.
OutOfRange == -((2^30 - 1) * 2)

\* int(x) of a finite value: truncation toward zero
Trunc(v) == Sgn(v.n) * (Abs(v.n) \div v.d)

\* ndarray.astype('int'): truncation toward zero; of inf or nan the cast is
\* undefined, and platform "amd64" yields INT64_MIN for all three, platform
\* "arm" yields 0 for nan and saturates the infinities
AsTypeIntOn(v, platform) ==
    IF v.k = "num" THEN Trunc(v)
    ELSE IF platform = "arm" /\ v.k = "nan" THEN 0
    ELSE OutOfRange

Platforms == {"amd64", "arm"}

\* astype('int') where the value is known to be finite
AsTypeInt(v) == AsTypeIntOn(v, "amd64")

\* np.round of a finite value: nearest integer, ties to the even one
NpRound(v) ==
    LET f == v.n \div v.d            \* floor, d > 0
        r == v.n - f * v.d           \* 0 <= r < d
    IN  IF 2 * r < v.d THEN Num(f, 1)
        ELSE IF 2 * r > v.d THEN Num(f + 1, 1)
        ELSE IF f % 2 = 0 THEN Num(f, 1) ELSE Num(f + 1, 1)

----------------------------------------------------------------------------
(* Vectors and 3x3 matrices (a matrix is the tuple of its rows) *)

Dot3(a, b) == a[1] * b[1] + a[2] * b[2] + a[3] * b[3]

Col(M, j) == <<M[1][j], M[2][j], M[3][j]>>

\* M.dot(p): matrix times column vector
MatVec(M, p) == <<Dot3(M[1], p), Dot3(M[2], p), Dot3(M[3], p)>>

\* p.dot(M): 1-D array times matrix, result[j] = sum_i p[i] * M[i][j]
VecMat(p, M) == <<Dot3(p, Col(M, 1)), Dot3(p, Col(M, 2)), Dot3(p, Col(M, 3))>>

Transpose(M) == <<Col(M, 1), Col(M, 2), Col(M, 3)>>

VecAdd(a, b) == <<a[1] + b[1], a[2] + b[2], a[3] + b[3]>>

VecSub(a, b) == <<a[1] - b[1], a[2] - b[2], a[3] - b[3]>>

Det3(M) ==
      M[1][1] * (M[2][2] * M[3][3] - M[2][3] * M[3][2])
    - M[1][2] * (M[2][1] * M[3][3] - M[2][3] * M[3][1])
    + M[1][3] * (M[2][1] * M[3][2] - M[2][2] * M[3][1])

\* cofactor C[i][j] of M (indices cyclic in 1..3)
Cofactor(M, i, j) ==
    LET i1 == (i % 3) + 1
        i2 == ((i + 1) % 3) + 1
        j1 == (j % 3) + 1
        j2 == ((j + 1) % 3) + 1
    IN  M[i1][j1] * M[i2][j2] - M[i1][j2] * M[i2][j1]

\* np.linalg.inv(M) = adj(M) / det(M); exact for the matrices of Rotations,
\* whose determinant is 1
MatInv(M) ==
    [i \in 1..3 |-> [j \in 1..3 |-> Cofactor(M, j, i) \div Det3(M)]]

----------------------------------------------------------------------------
(* Poses and calibration *)

Identity == <<<<1, 0, 0>>, <<0, 1, 0>>, <<0, 0, 1>>>>

\* quarter turn about z: R # R^-1
RotZ90 == <<<<0, -1, 0>>, <<1, 0, 0>>, <<0, 0, 1>>>>

\* quarter turn about x
RotX90 == <<<<1, 0, 0>>, <<0, 0, -1>>, <<0, 1, 0>>>>

\* half turn about y: the camera looks along -z of the world
RotY180 == <<<<-1, 0, 0>>, <<0, 1, 0>>, <<0, 0, -1>>>>

Rotations == {Identity, RotZ90, RotX90, RotY180}

\* pose.between(Pose3(Rot3(), Point3(point))).translation(): the point in the
\* frame of pose, R^T (point - t)
BetweenTranslation(pose, point) == MatVec(Transpose(pose.R), VecSub(point, pose.t))

\* calibration matrix K of pinhole intrinsics fx, fy, skew s, principal point
CalK(cal) == <<<<cal.fx, cal.s, cal.u0>>, <<0, cal.fy, cal.v0>>, <<0, 0, 1>>>>

\* QuadricCamera.transformToImage(pose, calibration): P = K [R|t]^-1, the
\* 3x4 world-to-image matrix, kept as its 3x3 part A = K R^T and its last
\* column c = -K R^T t
transformToImage(pose, cal) ==
    LET Rt == Transpose(pose.R)
        K  == CalK(cal)
        A  == [i \in 1..3 |-> [j \in 1..3 |-> Dot3(K[i], Col(Rt, j))]]
    IN  [A |-> A, c |-> MatVec(A, <<-pose.t[1], -pose.t[2], -pose.t[3]>>)]

\* P.dot([x, y, z, 1]): the homogeneous image point
ProjectH(P, p) == VecAdd(MatVec(P.A, p), P.c)

\* h[0:2] / h[2]: perspective division
PerspectiveDivide(h) == <<FDiv(h[1], h[3]), FDiv(h[2], h[3])>>

NonFinite(pt) == isinf(pt[1]) \/ isinf(pt[2]) \/ isnan(pt[1]) \/ isnan(pt[2])

----------------------------------------------------------------------------
(* Inputs *)

\* box coordinates range over 0..MaxCoord
MaxCoord == 2

BoxCoords == 0..MaxCoord

\* box3D.vector(): <<xmin, xmax, ymin, ymax, zmin, zmax>>, min <= max
Boxes ==
    {b \in [1..6 -> BoxCoords] : b[1] <= b[2] /\ b[3] <= b[4] /\ b[5] <= b[6]}

CamTranslations == {<<0, 0, -1>>, <<0, 0, 0>>, <<0, 1, 1>>, <<1, 0, 2>>}

CamPoses == [R : Rotations, t : CamTranslations]

Calibrations ==
    { [fx |-> 2, fy |-> 2, s |-> 0, u0 |-> 3, v0 |-> 2],
      [fx |-> 3, fy |-> 1, s |-> 1, u0 |-> 0, v0 |-> 0] }

Colors == {<<255, 0, 255>>, <<255, 0, 0>>}

\* a cv2 primitive drawn on the image
Prim(op, a, b, color) == [op |-> op, a |-> a, b |-> b, color |-> color]

\* images handed to the constructor: blank ones and one already drawn on
PriorImages ==
    { [shape |-> <<4, 6>>, ops |-> <<>>],
      [shape |-> <<8, 10>>, ops |-> <<>>],
      [shape |-> <<4, 6>>,
       ops |-> <<Prim("rectangle", <<0, 0>>, <<2, 2>>, <<0, 0, 255>>)>>] }

----------------------------------------------------------------------------
(* CV2Drawing.bounds_3D *)

\* b[lo:hi] of the source
Slice(b, lo, hi) == SubSeq(b, lo + 1, hi)

RECURSIVE ForZ(_, _, _)
\* [[x,y,z] for z in zs]
ForZ(x, y, zs) ==
    IF zs = <<>> THEN <<>> ELSE <<<<x, y, Head(zs)>>>> \o ForZ(x, y, Tail(zs))

RECURSIVE ForY(_, _, _)
\* [[x,y,z] for y in ys for z in zs]
ForY(x, ys, zs) ==
    IF ys = <<>> THEN <<>> ELSE ForZ(x, Head(ys), zs) \o ForY(x, Tail(ys), zs)

RECURSIVE ForX(_, _, _)
\* [[x,y,z] for x in xs for y in ys for z in zs]
ForX(xs, ys, zs) ==
    IF xs = <<>> THEN <<>> ELSE ForY(Head(xs), ys, zs) \o ForX(Tail(xs), ys, zs)

\* mutant: the comprehension nested with z outermost
CornersZOuter(b) ==
    LET c == ForX(Slice(b, 4, 6), Slice(b, 2, 4), Slice(b, 0, 2))
    IN  [k \in 1..Len(c) |-> <<c[k][3], c[k][2], c[k][1]>>]

\* points_3D: the 8 corners, x outermost, z innermost
Corners(b) == ForX(Slice(b, 0, 2), Slice(b, 2, 4), Slice(b, 4, 6))

\* mutant: only the first corner is tested
AnyBehindCameraFirstOnly(pose, points_3D) ==
    BetweenTranslation(pose, points_3D[1])[3] < 0

\* the loop "ensure points infront of camera": TRUE when it returns
AnyBehindCamera(pose, points_3D) ==
    \E k \in 1..Len(points_3D) : BetweenTranslation(pose, points_3D[k])[3] < 0

\* points_2D of bounds_3D: P.dot(points_3DTH), divided by the third row
ProjectCorners(pose, cal, points_3D) ==
    LET P == transformToImage(pose, cal)
    IN  [k \in 1..Len(points_3D) |-> PerspectiveDivide(ProjectH(P, points_3D[k]))]

\* mutant: the guard forgets infinities
AnyNonFiniteNanOnly(points_2D) ==
    \E k \in 1..Len(points_2D) : isnan(points_2D[k][1]) \/ isnan(points_2D[k][2])

\* np.any(np.isinf(points_2D)) or np.any(np.isnan(points_2D))
AnyNonFinite(points_2D) ==
    \E k \in 1..Len(points_2D) : NonFinite(points_2D[k])

\* tuple(point.astype('int'))
PixelOf(pt) == <<AsTypeInt(pt[1]), AsTypeInt(pt[2])>>

\* mutant: the last edge is a diagonal of a face
EdgeTableDiagonal ==
    << <<0, 1>>, <<1, 3>>, <<3, 2>>, <<2, 0>>, <<4, 5>>, <<5, 7>>,
       <<7, 6>>, <<6, 4>>, <<2, 6>>, <<1, 5>>, <<0, 4>>, <<3, 6>> >>

\* the index pairs of the "draw lines" loop
EdgeTable ==
    << <<0, 1>>, <<1, 3>>, <<3, 2>>, <<2, 0>>, <<4, 5>>, <<5, 7>>,
       <<7, 6>>, <<6, 4>>, <<2, 6>>, <<1, 5>>, <<0, 4>>, <<3, 7>> >>

\* the "draw points" loop
DrawPoints(points_2D) ==
    [k \in 1..Len(points_2D) |->
        Prim("circle", PixelOf(points_2D[k]), PixelOf(points_2D[k]), <<0, 0, 255>>)]

\* the "draw lines" loop
DrawLines(points_2D, color) ==
    [e \in 1..Len(EdgeTable) |->
        Prim("line", PixelOf(points_2D[EdgeTable[e][1] + 1]),
                     PixelOf(points_2D[EdgeTable[e][2] + 1]), color)]

RECURSIVE DrawWhileFinite(_)
\* markers of the leading corners that project to finite coordinates
DrawWhileFinite(points_2D) ==
    IF points_2D = <<>> \/ NonFinite(Head(points_2D)) THEN <<>>
    ELSE DrawPoints(<<Head(points_2D)>>) \o DrawWhileFinite(Tail(points_2D))

\* mutant: the finiteness test is made per corner inside the drawing loop
Bounds3DOpsPerCorner(points_3D, pose, cal, color) ==
    LET points_2D == ProjectCorners(pose, cal, points_3D)
    IN  IF AnyBehindCamera(pose, points_3D) THEN <<>>
        ELSE IF AnyNonFinite(points_2D) THEN DrawWhileFinite(points_2D)
        ELSE DrawPoints(points_2D) \o DrawLines(points_2D, color)

\* the primitives one call of bounds_3D draws
Bounds3DOps(points_3D, pose, cal, color) ==
    LET points_2D == ProjectCorners(pose, cal, points_3D)
    IN  IF AnyBehindCamera(pose, points_3D) THEN <<>>
        ELSE IF AnyNonFinite(points_2D) THEN <<>>
        ELSE DrawPoints(points_2D) \o DrawLines(points_2D, color)

bounds_3D(box3D, pose, cal, color) ==
    /\ call.op = "init"
    /\ image' = image \o Bounds3DOps(Corners(box3D), pose, cal, color)
    /\ call' = [op |-> "bounds_3D", before |-> image, box3D |-> box3D,
                pose |-> pose, calibration |-> cal, color |-> color,
                points_3D |-> Corners(box3D),
                points_2D |-> ProjectCorners(pose, cal, Corners(box3D))]
    /\ UNCHANGED shape

----------------------------------------------------------------------------
(* Floats of generate_uv_spherical *)

(***************************************************************************)
(* np.cos and np.sin of the samples of np.linspace are float64 values.     *)
(* Only at angle 0 and at the end points pi and 2 pi are they small        *)
(* integers (cos), and there sin is a nonzero float of about 1e-16; in     *)
(* between they are floats that no rational of small integers equals.  A   *)
(* float that is no small rational is not held digit by digit: it is held  *)
(* by name (Sym) while it is a sample coordinate or its negation, and by   *)
(* its sign alone (Opq) once arithmetic has mixed it with other values.    *)
(* For the quadrics, poses and calibrations of the model every depth of    *)
(* this kind is at least 1/10 away from 0, so that a pixel of this kind    *)
(* always fits a C int, and every value of this kind that is divided by a  *)
(* depth 0 is nonzero.                                                     *)
(***************************************************************************)

\* the float named code (d = code) or its negation (d = -code); n is the
\* sign of the value
Sym(sign, code) == [k |-> "sym", n |-> sign, d |-> code]

\* a finite float held by its sign alone (n = 0: the sign is not held either)
Opq(sign) == [k |-> "opq", n |-> sign, d |-> 0]

IsZero(v) == v.k = "num" /\ v.n = 0

\* the sign of a finite float, 0 where it is zero or not held
SignOf(v) == IF v.k = "num" THEN Sgn(v.n) ELSE v.n

\* c * v for an exact integer c
FScale(c, v) ==
    IF c = 0 THEN Num(0, 1)
    ELSE IF v.k = "num" THEN Num(c * v.n, v.d)
    ELSE IF v.k = "sym" /\ c = 1 THEN v
    ELSE IF v.k = "sym" /\ c = -1 THEN Sym(-v.n, -v.d)
    ELSE Opq(Sgn(c) * v.n)

\* v + w
FAdd(v, w) ==
    IF v.k = "num" /\ w.k = "num" THEN Num(v.n * w.d + w.n * v.d, v.d * w.d)
    ELSE IF IsZero(v) THEN w
    ELSE IF IsZero(w) THEN v
    ELSE Opq(IF SignOf(v) = SignOf(w) THEN SignOf(v) ELSE 0)

\* v / w as numpy divides floats: x / 0 is inf, 0 / 0 is nan
FQuot(v, w) ==
    IF IsZero(w)
    THEN IF IsZero(v) THEN [k |-> "nan", n |-> 0, d |-> 0]
                      ELSE [k |-> "inf", n |-> SignOf(v), d |-> 0]
    ELSE IF v.k = "num" /\ w.k = "num"
         THEN Num(v.n * w.d * Sgn(w.n), v.d * Abs(w.n))
    ELSE IF IsZero(v) THEN Num(0, 1)
    ELSE Opq(SignOf(v) * SignOf(w))

\* a.dot(b) for exact integers a and floats b
FDot(a, b) ==
    FAdd(FAdd(FScale(a[1], b[1]), FScale(a[2], b[2])), FScale(a[3], b[3]))

----------------------------------------------------------------------------
(* generate_uv_spherical *)

\* np.linspace(0, stop, n), stop in quarter turns (units of pi/2): n samples,
\* both ends included, sample k being the angle of stop (k-1) / (n-1) quarter
\* turns, held as <<numerator, denominator>>; the single sample of n = 1 is 0
Linspace(stop, n) ==
    [k \in 1..n |-> IF n = 1 THEN <<0, 1>> ELSE <<stop * (k - 1), n - 1>>]

\* the angle is a whole number of quarter turns
OnAxis(angle) == angle[1] % angle[2] = 0

\* the quarter turns completed at the angle
Quarter(angle) == angle[1] \div angle[2]

\* np.cos: 1 and -1 at whole half turns, about +-1e-16 at the odd quarter
\* turns, elsewhere a float with the sign of its quadrant
cos(angle) ==
    LET q == Quarter(angle) % 4
    IN  IF OnAxis(angle)
        THEN IF q = 0 THEN Num(1, 1)
             ELSE IF q = 2 THEN Num(-1, 1)
             ELSE IF q = 1 THEN Opq(1) ELSE Opq(-1)
        ELSE Opq(IF q \in {0, 3} THEN 1 ELSE -1)

\* np.sin: 0 at angle 0 only, 1 and -1 at the odd quarter turns, about
\* +1e-16 at pi and -2e-16 at 2 pi, elsewhere a float with the sign of its
\* quadrant
sin(angle) ==
    LET q == Quarter(angle) % 4
    IN  IF OnAxis(angle)
        THEN IF Quarter(angle) = 0 THEN Num(0, 1)
             ELSE IF q = 1 THEN Num(1, 1)
             ELSE IF q = 3 THEN Num(-1, 1)
             ELSE IF q = 2 THEN Opq(1) ELSE Opq(-1)
        ELSE Opq(IF q \in {0, 1} THEN 1 ELSE -1)

\* the name of coordinate axis of the sample (i, j)
Code(axis, i, j) == axis * 10000 + i * 100 + j

\* r * (a * b), one entry of radius * np.outer(..): exact where both
\* factors are, otherwise the float named code
Coordinate(r, a, b, code) ==
    IF IsZero(a) \/ IsZero(b) THEN Num(0, 1)
    ELSE IF a.k = "num" /\ b.k = "num" THEN Num(r * a.n * b.n, 1)
    ELSE Sym(SignOf(a) * SignOf(b), code)

\* points[:, i, j]: the sample (i, j) of the ellipsoid in its own frame; z
\* does not depend on i
LocalPoint(radii, u, v, i, j) ==
    << Coordinate(radii[1], cos(u[i]), sin(v[j]), Code(1, i, j)),
       Coordinate(radii[2], sin(u[i]), sin(v[j]), Code(2, i, j)),
       Coordinate(radii[3], Num(1, 1), cos(v[j]), Code(3, 1, j)) >>

\* mutant: the sample is multiplied by the rotation itself
WarpPointNoInverse(point, rotation, translation) ==
    [j \in 1..3 |-> FAdd(FDot(Col(rotation, j), point), Num(translation[j], 1))]

\* warped_point = point.dot(np.linalg.inv(rotation)); warped_point += translation
WarpPoint(point, rotation, translation) ==
    [j \in 1..3 |->
        FAdd(FDot(Col(MatInv(rotation), j), point), Num(translation[j], 1))]

\* the grid of world points, warped[i][j]
WarpedGrid(quadric, theta_points, phi_points) ==
    LET u == Linspace(4, theta_points)
        v == Linspace(2, phi_points)
    IN  [i \in 1..theta_points |-> [j \in 1..phi_points |->
            WarpPoint(LocalPoint(quadric.radii, u, v, i, j), quadric.R, quadric.t)]]

\* P.dot(point_3D) for point_3D = [x, y, z, 1], then point_2D[:2] / point_2D[2]
ProjectPoint(P, warped_point) ==
    LET h == [r \in 1..3 |-> FAdd(FDot(P.A[r], warped_point), Num(P.c[r], 1))]
    IN  <<FQuot(h[1], h[3]), FQuot(h[2], h[3])>>

\* the returned grid points_2D[i][j]
generate_uv_spherical(quadric, pose, cal, theta_points, phi_points) ==
    LET warped == WarpedGrid(quadric, theta_points, phi_points)
        P      == transformToImage(pose, cal)
    IN  [i \in 1..theta_points |-> [j \in 1..phi_points |->
            ProjectPoint(P, warped[i][j])]]

----------------------------------------------------------------------------
(* CV2Drawing.quadric *)

\* np.round keeps inf and nan; of a float not held exactly the rounded value
\* is not held either
RoundAny(v) ==
    IF v.k = "num" THEN NpRound(v)
    ELSE IF v.k \in {"sym", "opq"} THEN Opq(0)
    ELSE v

\* one pixel coordinate after astype('int'): the integer n, or an integer
\* that is not held ("some"), or INT64_MIN / INT64_MAX ("wide")
PixelCoordinate(v, platform) ==
    IF v.k = "opq" THEN [k |-> "some", n |-> 0]
    ELSE IF AsTypeIntOn(v, platform) = OutOfRange THEN [k |-> "wide", n |-> 0]
    ELSE [k |-> "int", n |-> AsTypeIntOn(v, platform)]

\* np.round(points_2D).astype('int')
RoundToInt(points_2D, platform) ==
    [i \in 1..Len(points_2D) |-> [j \in 1..Len(points_2D[i]) |->
        << PixelCoordinate(RoundAny(points_2D[i][j][1]), platform),
           PixelCoordinate(RoundAny(points_2D[i][j][2]), platform) >>]]

\* range(n) of the source
Range(n) == [k \in 1..n |-> k - 1]

RECURSIVE AlongSecondAxis(_, _)
\* for j in js: the pair (i,j)-(i,j+1)
AlongSecondAxis(i, js) ==
    IF js = <<>> THEN <<>>
    ELSE << << <<i, Head(js)>>, <<i, Head(js) + 1>> >> >>
             \o AlongSecondAxis(i, Tail(js))

RECURSIVE FirstLoopRows(_, _)
\* for i in is: for j in range(n - 1)
FirstLoopRows(is, n) ==
    IF is = <<>> THEN <<>>
    ELSE AlongSecondAxis(Head(is), Range(n - 1)) \o FirstLoopRows(Tail(is), n)

\* mutant: each row is closed from its last sample back to its first
FirstLoopWrap(m, n) ==
    FirstLoopRows(Range(m), n)
        \o [i \in 1..m |-> << <<i - 1, n - 1>>, <<i - 1, 0>> >>]

\* the index pairs of the first pair of loops: (i,j)-(i,j+1)
FirstLoop(m, n) == FirstLoopRows(Range(m), n)

RECURSIVE AlongFirstAxis(_, _)
\* for i in is: the pair (i,j)-(i+1,j)
AlongFirstAxis(is, j) ==
    IF is = <<>> THEN <<>>
    ELSE << << <<Head(is), j>>, <<Head(is) + 1, j>> >> >>
             \o AlongFirstAxis(Tail(is), j)

RECURSIVE SecondLoopCols(_, _)
\* for j in js: for i in range(m - 1)
SecondLoopCols(js, m) ==
    IF js = <<>> THEN <<>>
    ELSE AlongFirstAxis(Range(m - 1), Head(js)) \o SecondLoopCols(Tail(js), m)

\* mutant: the outer loop stops one column early
SecondLoopShort(m, n) == SecondLoopCols(Range(n - 1), m)

\* the index pairs of the second pair of loops: (i,j)-(i+1,j)
SecondLoop(m, n) == SecondLoopCols(Range(n), m)

\* cv2.line raises when a coordinate does not fit a C int
LineRaises(p1, p2) == "wide" \in {p1[1].k, p1[2].k, p2[1].k, p2[2].k}

\* TRUE when the cv2.line of segment sg raises
SegmentRaises(sg, pixels) ==
    LineRaises(pixels[sg[1][1] + 1][sg[1][2] + 1],
               pixels[sg[2][1] + 1][sg[2][2] + 1])

\* the leading segments drawn before the first cv2.line that raises
UntilRaise(segments, pixels) ==
    LET raising == {e \in 1..Len(segments) : SegmentRaises(segments[e], pixels)}
    IN  IF raising = {} THEN segments
        ELSE SubSeq(segments, 1,
                    (CHOOSE e \in raising : \A f \in raising : e <= f) - 1)

\* color = (color[2], color[1], color[0])
RgbToBgr(color) == <<color[3], color[2], color[1]>>

\* the segments one call of quadric draws, as index pairs: those of the two
\* pairs of loops, up to the first cv2.line that raises
QuadricSegments(pixels) ==
    UntilRaise(FirstLoop(Len(pixels), Len(pixels[1]))
                   \o SecondLoop(Len(pixels), Len(pixels[1])), pixels)

\* TRUE when a cv2.line of the call raises, given the segments drawn
QuadricRaises(pixels, segments) ==
    Len(segments) < Len(FirstLoop(Len(pixels), Len(pixels[1])))
                        + Len(SecondLoop(Len(pixels), Len(pixels[1])))

\* the cv2.line calls of the segments, and the final cv2.addWeighted when
\* alpha != 1 and no call raised before it
QuadricOps(pixels, segments, color, blend) ==
    [e \in 1..Len(segments) |->
        Prim("line", pixels[segments[e][1][1] + 1][segments[e][1][2] + 1],
                     pixels[segments[e][2][1] + 1][segments[e][2][2] + 1],
                     RgbToBgr(color))]
    \o (IF blend /\ ~QuadricRaises(pixels, segments)
        THEN <<Prim("addWeighted", <<0, 0>>, <<0, 0>>, <<0, 0, 0>>)>>
        ELSE <<>>)

\* theta_points and phi_points of the call at the head of quadric
Resolution == 10

\* quadric(pose, quadric, calibration, color, alpha); blend is alpha != 1.
\* The platform decides the cast of inf and nan.
quadric(pose, quad, cal, color, blend, platform) ==
    \E points_2D \in {generate_uv_spherical(quad, pose, cal, Resolution, Resolution)} :
    \E pixels \in {RoundToInt(points_2D, platform)} :
    \E segments \in {QuadricSegments(pixels)} :
        /\ call.op = "init"
        /\ image' = image \o QuadricOps(pixels, segments, color, blend)
        /\ call' = [op |-> "quadric", before |-> image, pose |-> pose,
                    quadric |-> quad, calibration |-> cal, color |-> color,
                    blend |-> blend, platform |-> platform,
                    warped |-> WarpedGrid(quad, Resolution, Resolution),
                    points_2D |-> points_2D, pixels |-> pixels,
                    segments |-> segments,
                    raised |-> QuadricRaises(pixels, segments)]
        /\ UNCHANGED shape

MaxRadius == 2

\* quadric.radii(): the semi-axes <<rx, ry, rz>>, here with rx = 1
Radii == {r \in [1..3 -> 1..MaxRadius] : r[1] = 1}

QuadricTranslations == {<<0, 0, 2>>, <<1, 0, 3>>}

Quadrics == [R : {Identity, RotZ90}, t : QuadricTranslations, radii : Radii]

QuadricCamPoses == [R : {Identity, RotY180}, t : {<<0, 0, 0>>}]

----------------------------------------------------------------------------
(* CV2Drawing.box, text, box_and_text *)

\* a < b for finite values
RatLess(a, b) == a.n * b.d < b.n * a.d

\* np.clip(a, lo, hi) = minimum(maximum(a, lo), hi)
NpClip(a, lo, hi) ==
    LET mx == IF RatLess(a, lo) THEN lo ELSE a
    IN  IF RatLess(hi, mx) THEN hi ELSE mx

\* a + k for an integer k
RatAddInt(a, k) == Num(a.n + k * a.d, a.d)

\* lower_left = [lower_left[0]+background_margin, lower_left[1]-background_margin]
ShiftedLowerLeft(lower_left, margin) ==
    <<RatAddInt(lower_left[1], margin), RatAddInt(lower_left[2], -margin)>>

\* mutant: x is clipped to the image width, the text width forgotten
TextAnchorNoWidth(lower_left, margin, size, shp) ==
    LET ll          == ShiftedLowerLeft(lower_left, margin)
        text_height == size[2] + margin * 2
    IN  << Trunc(NpClip(ll[1], Num(0, 1), Num(shp[2], 1))),
           Trunc(NpClip(ll[2], Num(text_height, 1), Num(shp[1], 1))) >>

\* final_position of text(); size is cv2.getTextSize(...)[0] = <<width, height>>
TextAnchor(lower_left, margin, size, shp) ==
    LET ll           == ShiftedLowerLeft(lower_left, margin)
        text_width   == size[1] + margin * 2
        text_height  == size[2] + margin * 2
        image_width  == shp[2]
        image_height == shp[1]
    IN  << Trunc(NpClip(ll[1], Num(0, 1), Num(image_width - text_width, 1))),
           Trunc(NpClip(ll[2], Num(text_height, 1), Num(image_height, 1))) >>

\* the primitives of text(): the filled background rectangle, if asked for,
\* and the text itself (a putText primitive carries the anchor and the size
\* of the text)
TextOps(lower_left, size, color, background, background_color, margin, shp) ==
    LET final_position == TextAnchor(lower_left, margin, size, shp)
        text_width     == size[1] + margin * 2
        text_height    == size[2] + margin * 2
        upper_left     == <<final_position[1], final_position[2] - text_height>>
        xmin           == upper_left[1] - margin + 1
        ymin           == upper_left[2] - margin + 4
        xmax           == upper_left[1] + text_width + margin
        ymax           == upper_left[2] + text_height + margin + 1
    IN  (IF background
         THEN <<Prim("rectangle", <<xmin, ymin>>, <<xmax, ymax>>, background_color)>>
         ELSE <<>>)
        \o <<Prim("putText", final_position, size, color)>>

text(size, lower_left, color, background, background_color, margin) ==
    /\ call.op = "init"
    /\ image' = image \o TextOps(lower_left, size, color, background,
                                 background_color, margin, shape)
    /\ call' = [op |-> "text", before |-> image, size |-> size,
                lower_left |-> lower_left, margin |-> margin,
                background |-> background,
                final_position |-> TextAnchor(lower_left, margin, size, shape)]
    /\ UNCHANGED shape

\* the primitive of box(): corners truncated by int()
BoxOps(box2D, color) ==
    <<Prim("rectangle", <<Trunc(box2D.xmin), Trunc(box2D.ymin)>>,
                        <<Trunc(box2D.xmax), Trunc(box2D.ymax)>>, color)>>

box(box2D, color) ==
    /\ call.op = "init"
    /\ image' = image \o BoxOps(box2D, color)
    /\ call' = [op |-> "box", before |-> image, box |-> box2D]
    /\ UNCHANGED shape

\* default of background_margin
DefaultMargin == 3

\* box_thickness of box_and_text
BoxThickness == 2

\* box_and_text: the box, then the text on a background of the box's colour,
\* requested at the box's upper left corner moved out by the thickness
box_and_text(box2D, box_color, size, text_color) ==
    LET lower_left == <<RatAddInt(box2D.xmin, -BoxThickness),
                        RatAddInt(box2D.ymin, -BoxThickness)>>
    IN  /\ call.op = "init"
        /\ image' = image \o BoxOps(box2D, box_color)
                          \o TextOps(lower_left, size, text_color, TRUE,
                                     box_color, DefaultMargin, shape)
        /\ call' = [op |-> "box_and_text", before |-> image, size |-> size,
                    lower_left |-> lower_left, margin |-> DefaultMargin,
                    background |-> TRUE,
                    final_position |->
                        TextAnchor(lower_left, DefaultMargin, size, shape)]
        /\ UNCHANGED shape

\* requested text positions: multiples of half a pixel in -1..MaxPos
MaxPos == 4

HalfPixels == {Num(n, 2) : n \in (-2)..(2 * MaxPos)}

TextSizes == {<<2, 1>>, <<3, 2>>, <<7, 2>>}

Margins == {0, 1, DefaultMargin}

Boxes2D ==
    { [xmin |-> Num(1, 2), ymin |-> Num(25, 2), xmax |-> Num(3, 1), ymax |-> Num(14, 1)],
      [xmin |-> Num(2, 1), ymin |-> Num(3, 1), xmax |-> Num(11, 2), ymax |-> Num(4, 1)] }

----------------------------------------------------------------------------
(* Construction *)

\* CV2Drawing.__init__(image)
Construct(img) ==
    /\ call.op # "init"
    /\ image' = img.ops
    /\ shape' = img.shape
    /\ call' = [op |-> "init", before |-> img.ops]

Init ==
    \E img \in PriorImages :
        /\ image = img.ops
        /\ shape = img.shape
        /\ call = [op |-> "init", before |-> image]

DoConstruct == \E img \in PriorImages : Construct(img)

DoBounds3D ==
    /\ call.op = "init"
    /\ \E box3D \in Boxes, pose \in CamPoses, cal \in Calibrations :
          bounds_3D(box3D, pose, cal, <<255, 0, 255>>)

NextBounds3D == DoConstruct \/ DoBounds3D

DoQuadric ==
    /\ call.op = "init"
    /\ \E pose \in QuadricCamPoses, quad \in Quadrics, cal \in Calibrations,
          blend \in BOOLEAN, platform \in Platforms :
          quadric(pose, quad, cal, <<255, 0, 0>>, blend, platform)

DoText ==
    /\ call.op = "init"
    /\ \E size \in TextSizes, x \in HalfPixels, y \in HalfPixels,
          background \in BOOLEAN, margin \in Margins :
          text(size, <<x, y>>, <<255, 255, 255>>, background, <<0, 0, 255>>, margin)

DoBox ==
    /\ call.op = "init"
    /\ \E box2D \in Boxes2D, color \in Colors : box(box2D, color)

DoBoxAndText ==
    /\ call.op = "init"
    /\ \E box2D \in Boxes2D, box_color \in Colors, size \in TextSizes :
          box_and_text(box2D, box_color, size, <<255, 255, 255>>)

NextText == DoConstruct \/ DoText \/ DoBox \/ DoBoxAndText

SpecText == Init /\ [][NextText]_vars

Next == DoConstruct \/ DoBounds3D \/ DoQuadric \/ DoText \/ DoBox \/ DoBoxAndText

Spec == Init /\ [][Next]_vars

NextQuadric == DoConstruct \/ DoQuadric

SpecQuadric == Init /\ [][NextQuadric]_vars

SpecBounds3D == Init /\ [][NextBounds3D]_vars

----------------------------------------------------------------------------
(* Properties of bounds_3D *)

\* corner number k = 4 ix + 2 iy + iz of the box b
CornerByIndex(b, k) ==
    <<b[1 + (k \div 4)], b[3 + ((k \div 2) % 2)], b[5 + (k % 2)]>>

\* camera-frame depth of a world point: the z component of R^T (p - t)
CameraDepth(pose, p) == Dot3(Col(pose.R, 3), VecSub(p, pose.t))

SomeCornerBehind ==
    \E k \in 0..7 : CameraDepth(call.pose, CornerByIndex(call.box3D, k)) < 0

AllCornersInFront ==
    \A k \in 0..7 : CameraDepth(call.pose, CornerByIndex(call.box3D, k)) > 0

\* C1: if some corner of the box has camera-frame depth < 0, bounds_3D leaves
\* the image as it was.
C1_BehindDrawsNothing ==
    (call.op = "bounds_3D" /\ SomeCornerBehind) => image = call.before

\* a call on an image already drawn on, with one corner behind the camera and
\* another strictly in front of it
C1_Witness ==
    /\ call.op = "bounds_3D"
    /\ call.before # <<>>
    /\ SomeCornerBehind
    /\ \E k \in 0..7 : CameraDepth(call.pose, CornerByIndex(call.box3D, k)) > 0
    /\ image = call.before

\* the pixel bounds_3D draws for corner k
CornerPixel(k) ==
    LET h == ProjectH(transformToImage(call.pose, call.calibration),
                      CornerByIndex(call.box3D, k))
    IN  <<Trunc(FDiv(h[1], h[3])), Trunc(FDiv(h[2], h[3]))>>

ClaimedEdges ==
    << <<0, 1>>, <<1, 3>>, <<3, 2>>, <<2, 0>>, <<4, 5>>, <<5, 7>>,
       <<7, 6>>, <<6, 4>>, <<2, 6>>, <<1, 5>>, <<0, 4>>, <<3, 7>> >>

\* the primitives the last call added to the image
Added == SubSeq(image, Len(call.before) + 1, Len(image))

LinesAdded == SelectSeq(Added, LAMBDA o : o.op = "line")

\* C4: with all 8 corners in front of the camera, bounds_3D draws exactly 12
\* lines, the e-th joining the pixels of the two corners of the e-th table
\* entry, corner k being corner 4 ix + 2 iy + iz of the box.
C4_TwelveEdges ==
    (call.op = "bounds_3D" /\ AllCornersInFront) =>
        /\ Len(LinesAdded) = 12
        /\ \A e \in 1..12 :
              /\ LinesAdded[e].a = CornerPixel(ClaimedEdges[e][1])
              /\ LinesAdded[e].b = CornerPixel(ClaimedEdges[e][2])

\* a drawn box whose 8 corners are 8 different points with different pixels
\* at the two ends of the first edge
C4_Witness ==
    /\ call.op = "bounds_3D"
    /\ AllCornersInFront
    /\ Cardinality({CornerByIndex(call.box3D, k) : k \in 0..7}) = 8
    /\ Len(LinesAdded) = 12
    /\ LinesAdded[1].a # LinesAdded[1].b

BadProjection ==
    \E k \in 0..7 :
        LET h == ProjectH(transformToImage(call.pose, call.calibration),
                          CornerByIndex(call.box3D, k))
        IN  h[3] = 0

\* C7: a call of bounds_3D leaves the image as it was, which it does exactly
\* when a corner is behind the camera or a coordinate is inf or nan, or else
\* appends all 8 markers followed by all 12 edges.
C7_AllOrNothing ==
    call.op = "bounds_3D" =>
        /\ SubSeq(image, 1, Len(call.before)) = call.before
        /\ \/ image = call.before
           \/ /\ Len(Added) = 20
              /\ \A i \in 1..8 : Added[i].op = "circle"
              /\ \A i \in 9..20 : Added[i].op = "line"
        /\ (image = call.before) <=> (SomeCornerBehind \/ BadProjection)

\* a rejected box whose first corner projects to a finite pixel and is in
\* front of the camera, while a later corner does not project
C7_Witness ==
    /\ call.op = "bounds_3D"
    /\ ~SomeCornerBehind
    /\ CameraDepth(call.pose, CornerByIndex(call.box3D, 0)) > 0
    /\ BadProjection
    /\ image = call.before

\* number of coordinates in which corners a and b take different ends
BitDistance(a, b) ==
    Cardinality({w \in {1, 2, 4} : ((a \div w) % 2) # ((b \div w) % 2)})

\* C8: with corner k = 4 ix + 2 iy + iz, every pair of the edge table joins
\* two corners that differ in exactly one coordinate, the pairs are distinct
\* as unordered pairs, and every corner occurs in exactly 3 pairs.
C8_TableIsBoxEdges ==
    call.op = "bounds_3D" =>
        /\ \A k \in 0..7 : call.points_3D[k + 1] = CornerByIndex(call.box3D, k)
        /\ Len(EdgeTable) = 12
        /\ \A e \in 1..Len(EdgeTable) :
              /\ EdgeTable[e][1] \in 0..7 /\ EdgeTable[e][2] \in 0..7
              /\ BitDistance(EdgeTable[e][1], EdgeTable[e][2]) = 1
        /\ \A e, f \in 1..Len(EdgeTable) :
              {EdgeTable[e][1], EdgeTable[e][2]} = {EdgeTable[f][1], EdgeTable[f][2]}
                  => e = f
        /\ \A k \in 0..7 :
              Cardinality({e \in 1..Len(EdgeTable) :
                              k \in {EdgeTable[e][1], EdgeTable[e][2]}}) = 3

\* a box with 8 different corners was drawn with the 12 edges of the table
C8_Witness ==
    /\ call.op = "bounds_3D"
    /\ Cardinality({call.points_3D[k] : k \in 1..8}) = 8
    /\ Len(LinesAdded) = Len(EdgeTable)
    /\ call.before # <<>>

\* C9: a corner at depth exactly 0 passes the behind-camera test, projects to
\* an inf or nan coordinate and so stops the call at the finiteness guard:
\* bounds_3D changes the image only if every corner has depth > 0.
C9_ZeroDepthNotDrawn ==
    call.op = "bounds_3D" =>
        /\ \A k \in 0..7 :
              CameraDepth(call.pose, CornerByIndex(call.box3D, k)) = 0
                  => NonFinite(call.points_2D[k + 1])
        /\ image # call.before => AllCornersInFront

\* no corner behind, a corner at depth 0 with an infinite coordinate and none
\* with a nan one, and nothing drawn
C9_Witness ==
    /\ call.op = "bounds_3D"
    /\ ~SomeCornerBehind
    /\ \E k \in 0..7 :
          /\ CameraDepth(call.pose, CornerByIndex(call.box3D, k)) = 0
          /\ isinf(call.points_2D[k + 1][1])
    /\ \A k \in 1..8 : ~isnan(call.points_2D[k][1]) /\ ~isnan(call.points_2D[k][2])
    /\ image = call.before

----------------------------------------------------------------------------
(* Properties of quadric and generate_uv_spherical *)

\* the grid of the last quadric call has GridM samples along theta and GridN
\* along phi
GridM == Len(call.points_2D)

GridN == Len(call.points_2D[1])

SomePointNonFinite ==
    \E i \in 1..GridM, j \in 1..GridN : NonFinite(call.points_2D[i][j])

\* the loops of quadric are also examined on every grid shape up to
\* MaxGrid x MaxGrid
MaxGrid == 3

\* C2: if some projected sample is inf or nan, quadric draws nothing and the
\* image is as it was before the call.
C2_NonFiniteSkipsDraw ==
    (call.op = "quadric" /\ SomePointNonFinite) => image = call.before

\* C3: on a grid of m x n finite samples quadric draws (m-1) n + m (n-1)
\* lines: first m (n-1) along the second axis, then n (m-1) along the first;
\* and the two pairs of loops have these many passes on every shape m x n.
C3_EdgeCount ==
    /\ (call.op = "quadric" /\ ~SomePointNonFinite) =>
          /\ Len(LinesAdded) = (GridM - 1) * GridN + GridM * (GridN - 1)
          /\ Len(call.segments) = Len(LinesAdded)
          /\ \A e \in 1..Len(call.segments) :
                LET a == call.segments[e][1]
                    b == call.segments[e][2]
                IN  IF e <= GridM * (GridN - 1)
                    THEN a[1] = b[1] /\ a[2] # b[2]
                    ELSE a[2] = b[2] /\ a[1] # b[1]
    /\ \A m \in 1..MaxGrid, n \in 1..MaxGrid :
          /\ Len(FirstLoop(m, n)) = m * (n - 1)
          /\ Len(SecondLoop(m, n)) = n * (m - 1)

\* the 10 x 10 grid of finite samples drawn with 180 lines on an image
\* already drawn on
C3_Witness ==
    /\ call.op = "quadric"
    /\ ~SomePointNonFinite
    /\ GridM = Resolution /\ GridN = Resolution
    /\ Len(LinesAdded) = 2 * Resolution * (Resolution - 1)
    /\ call.before # <<>>

\* the segment joins a sample to its successor along exactly one axis
Adjacent(a, b) ==
    \/ b[1] = a[1] /\ b[2] = a[2] + 1
    \/ b[1] = a[1] + 1 /\ b[2] = a[2]

\* C5: every line of quadric joins the pixels of samples (i,j) and (i,j+1)
\* or (i,j) and (i+1,j) of the grid; none joins the last index of an axis to
\* index 0, and an axis of one sample has no line along it.
C5_AdjacentOnly ==
    /\ call.op = "quadric" =>
          /\ Len(LinesAdded) = Len(call.segments)
          /\ \A e \in 1..Len(call.segments) :
                LET a == call.segments[e][1]
                    b == call.segments[e][2]
                IN  /\ a[1] \in 0..(GridM - 1) /\ b[1] \in 0..(GridM - 1)
                    /\ a[2] \in 0..(GridN - 1) /\ b[2] \in 0..(GridN - 1)
                    /\ Adjacent(a, b)
                    /\ LinesAdded[e].a = call.pixels[a[1] + 1][a[2] + 1]
                    /\ LinesAdded[e].b = call.pixels[b[1] + 1][b[2] + 1]
    /\ \A m \in 1..MaxGrid, n \in 1..MaxGrid :
          /\ \A e \in 1..Len(FirstLoop(m, n)) :
                /\ Adjacent(FirstLoop(m, n)[e][1], FirstLoop(m, n)[e][2])
                /\ FirstLoop(m, n)[e][2][2] \in 1..(n - 1)
          /\ \A e \in 1..Len(SecondLoop(m, n)) :
                /\ Adjacent(SecondLoop(m, n)[e][1], SecondLoop(m, n)[e][2])
                /\ SecondLoop(m, n)[e][2][1] \in 1..(m - 1)
          /\ n = 1 => FirstLoop(m, n) = <<>>
          /\ m = 1 => SecondLoop(m, n) = <<>>

\* a call that drew the whole grid: among its lines one ends at the last
\* sample of a row and one at the last sample of a column
C5_Witness ==
    /\ call.op = "quadric"
    /\ ~call.raised
    /\ \E e \in 1..Len(call.segments) :
          /\ call.segments[e][1][1] = call.segments[e][2][1]
          /\ call.segments[e][2][2] = GridN - 1
    /\ \E e \in 1..Len(call.segments) :
          /\ call.segments[e][1][2] = call.segments[e][2][2]
          /\ call.segments[e][2][1] = GridM - 1

\* the local-frame sample (i, j) of the last quadric call, 1-based
LocalSample(i, j) ==
    LocalPoint(call.quadric.radii, Linspace(4, GridM), Linspace(2, GridN), i, j)

\* M p + t for the column vector p
RotateTranslate(M, p, t) ==
    [r \in 1..3 |-> FAdd(FDot(M[r], p), Num(t[r], 1))]

\* C6 as claimed: every sample p is mapped to R^-1 p + t.
C6_InverseRotation ==
    call.op = "quadric" =>
        \A i \in 1..GridM, j \in 1..GridN :
            call.warped[i][j] =
                RotateTranslate(MatInv(call.quadric.R), LocalSample(i, j),
                                call.quadric.t)

\* C6 amended: every sample p is mapped to the row-vector product
\* p R^-1 + t, which for the rotation matrix R of the pose is R p + t, the
\* standard rotate-then-translate composition.
C6_RotateThenTranslate ==
    call.op = "quadric" =>
        \A i \in 1..GridM, j \in 1..GridN :
            call.warped[i][j] =
                RotateTranslate(call.quadric.R, LocalSample(i, j), call.quadric.t)

\* a quadric whose rotation is not its own inverse and a sample on which
\* R p and R^-1 p differ: a coordinate of one is the negation of the same
\* coordinate of the other
C6_Witness ==
    /\ call.op = "quadric"
    /\ call.quadric.R # Transpose(call.quadric.R)
    /\ \E i \in 1..GridM, j \in 1..GridN, r \in 1..3 :
          /\ FDot(call.quadric.R[r], LocalSample(i, j)).k = "sym"
          /\ FDot(call.quadric.R[r], LocalSample(i, j))
                = FScale(-1, FDot(Transpose(call.quadric.R)[r], LocalSample(i, j)))
          /\ call.warped[i][j] =
                RotateTranslate(call.quadric.R, LocalSample(i, j), call.quadric.t)

----------------------------------------------------------------------------
(* Properties of text *)

TextCall == call.op \in {"text", "box_and_text"}

PaddedWidth == call.size[1] + 2 * call.margin

PaddedHeight == call.size[2] + 2 * call.margin

TextFits == PaddedWidth <= shape[2] /\ PaddedHeight <= shape[1]

\* the requested position moved by (+margin, -margin), in half pixels
ShiftedX2 == (2 * call.lower_left[1].n) \div call.lower_left[1].d + 2 * call.margin

ShiftedY2 == (2 * call.lower_left[2].n) \div call.lower_left[2].d - 2 * call.margin

ShiftedInRange ==
    /\ 0 <= ShiftedX2 /\ ShiftedX2 <= 2 * (shape[2] - PaddedWidth)
    /\ 2 * PaddedHeight <= ShiftedY2 /\ ShiftedY2 <= 2 * shape[1]

AnchorInRange ==
    /\ 0 <= call.final_position[1]
    /\ call.final_position[1] <= shape[2] - PaddedWidth
    /\ PaddedHeight <= call.final_position[2]
    /\ call.final_position[2] <= shape[1]

\* C10 as claimed: when the padded text fits, the anchor lies in the range
\* and equals the shifted position whenever that lies in the range.
C10_AnchorEqualsShifted ==
    (TextCall /\ TextFits) =>
        /\ AnchorInRange
        /\ ShiftedInRange =>
              /\ 2 * call.final_position[1] = ShiftedX2
              /\ 2 * call.final_position[2] = ShiftedY2

\* C10 amended: when the padded text fits, the anchor lies in the range and,
\* whenever the shifted position lies in the range, is that position with
\* each coordinate truncated to an integer.
C10_AnchorTruncatesShifted ==
    (TextCall /\ TextFits) =>
        /\ AnchorInRange
        /\ ShiftedInRange =>
              /\ call.final_position[1] = ShiftedX2 \div 2
              /\ call.final_position[2] = ShiftedY2 \div 2

\* a text that fits, requested right of the image, was moved back inside
C10_Witness ==
    /\ TextCall
    /\ TextFits
    /\ call.margin > 0
    /\ ShiftedX2 > 2 * (shape[2] - PaddedWidth)
    /\ call.final_position[1] = shape[2] - PaddedWidth
    /\ image # call.before

====
